---- MODULE Spec2Model ----
(***************************************************************************)
(* A model of the pure-Python `values` type (class pyvalues, a tuple       *)
(* subclass carrying a keyword mapping and a memoized hash).               *)
(*                                                                         *)
(* One instance, `self`, lives through a behaviour.  A caller applies the  *)
(* type's operations to it one at a time; the operands of an operation     *)
(* (another instance, a plain tuple, a plain dict, a subscript key, a      *)
(* target function with extra arguments) are drawn from small sets.  The   *)
(* outcome of the operation in progress is held in `last` until the caller *)
(* drops it.  `data` is a dict the caller keys with instances and tuples.  *)
(***************************************************************************)
EXTENDS Integers, Sequences, FiniteSets, TLC

VARIABLES self, last, data

vars == <<self, last, data>>

----------------------------------------------------------------------------
(* Bounds of the model.                                                    *)

\* longest positional sequence of an instance or of a plain tuple operand
MaxLen == 2

\* most extra positionals handed to a call
MaxExtra == 3

\* most entries the caller's dict holds
MaxData == 1

----------------------------------------------------------------------------
(* The values an instance can hold.                                        *)

\* `None`, the initial content of the hash cache
None == -1

\* an unhashable member, the {"a": 1} of the tests
Unhashable == 99

HashableVals == {1, 2}

Vals == HashableVals \cup {Unhashable}

\* keyword names: "d" is a parameter of gather, "x" is not
Keys == {"d", "x"}

\* the named parameter of __new__(cls, *args, **kwds)
NewParams == {"cls"}

\* the named parameters of __call__(self, function, *args, **kwds)
CallParams == {"self", "function"}

SeqsUpTo(S, n) == UNION {[1..k -> S] : k \in 0..n}

\* the ordered items of a dict: <<key, value>> pairs, keys unique
ItemsOver(V) ==
    {s \in SeqsUpTo(Keys \X V, Cardinality(Keys)) :
        \A i, j \in 1..Len(s) : i # j => s[i][1] # s[j][1]}

\* the dicts a caller hands over as **kwds or as an operand: the items
\* over Keys, and one entry under a name that a signature of the type uses
\* for a parameter of its own
KwdsOver(V) ==
    ItemsOver(V) \cup {<<<<n, 1>>>> : n \in NewParams \cup CallParams}

Range(s) == {s[i] : i \in 1..Len(s)}

KeysOf(items) == {items[i][1] : i \in 1..Len(items)}

\* dict[key], for a key that is present
Lookup(items, k) == (CHOOSE p \in Range(items) : p[1] = k)[2]

\* the outcome of an operation: a returned value or a raised exception
Return(v) == [err |-> "none", val |-> v]
Raise(e) == [err |-> e, val |-> 0]

----------------------------------------------------------------------------
(* Objects.  An instance is its positionals (the tuple part), its keyword  *)
(* dict as ordered items, and its hash cache.  Operands are tagged by      *)
(* their runtime type.                                                     *)

\* pyvalues.__new__(cls, *args, **kwds): a keyword named as the signature's
\* own parameter is a second value for it, TypeError; else the tuple part,
\* self.__kwds, self.__hashed = None
__new__(args, kwds) ==
    IF KeysOf(kwds) \cap NewParams # {} THEN Raise("TypeError")
    ELSE Return([args |-> args, kwds |-> kwds, hashed |-> None])

\* the instances that can be constructed
Instances ==
    {__new__(p[1], p[2]).val :
        p \in {q \in SeqsUpTo(Vals, MaxLen) \X KwdsOver(Vals) :
                  __new__(q[1], q[2]).err = "none"}}

AsValues(v) == [kind |-> "values", args |-> v.args, kwds |-> v.kwds]
AsTuple(t) == [kind |-> "tuple", args |-> t, kwds |-> <<>>]
AsDict(m) == [kind |-> "dict", args |-> <<>>, kwds |-> m]

\* an iterable that is no instance, no tuple and no dict (a list, a str,
\* a range, ...), by the items it yields
AsList(t) == [kind |-> "list", args |-> t, kwds |-> <<>>]

\* an object that is none of these and not iterable (an int, None, ...)
Opaque == [kind |-> "object", args |-> <<>>, kwds |-> <<>>]

\* the instance itself, met again as the other operand
Same == [kind |-> "self", args |-> <<>>, kwds |-> <<>>]

Tuples == {AsTuple(t) : t \in SeqsUpTo(Vals, MaxLen)}
Dicts == {AsDict(m) : m \in KwdsOver(Vals)}
Lists == {AsList(t) : t \in SeqsUpTo(Vals, MaxLen)}
Others ==
    {AsValues(v) : v \in Instances} \cup Tuples \cup Dicts \cup Lists
        \cup {Opaque, Same}

----------------------------------------------------------------------------
(* The builtins the type delegates to.                                     *)

\* tuple == tuple: same length, element-wise equal
TupleEq(s, t) == Len(s) = Len(t) /\ \A i \in 1..Len(s) : s[i] = t[i]

\* dict == dict: same keys, same value under each key, whatever the order
DictEq(m, n) ==
    /\ KeysOf(m) = KeysOf(n)
    /\ \A k \in KeysOf(m) : Lookup(m, k) = Lookup(n, k)

\* one round of the tuple hash
Mix(acc, h) == (acc * 31 + h + 1) % 65536

RECURSIVE TupleHashFrom(_, _)
TupleHashFrom(acc, hs) ==
    IF hs = <<>> THEN acc ELSE TupleHashFrom(Mix(acc, Head(hs)), Tail(hs))

\* tuple.__hash__: order-dependent; TypeError on an unhashable member
TupleHash(s) ==
    IF \E i \in 1..Len(s) : s[i] = Unhashable
    THEN Raise("TypeError")
    ELSE Return(TupleHashFrom(7, s))

\* hash of a keyword name
StrHash(k) ==
    CASE k = "d" -> 11 [] k = "x" -> 23 [] k = "self" -> 37
      [] k = "function" -> 41 [] OTHER -> 5

\* hash((key, value))
ItemHash(p) == TupleHashFrom(7, <<StrHash(p[1]), p[2]>>)

\* the scrambling of one member's hash before the set hash combines it:
\* not affine, so that swapping the values of two keys changes the sum
Shuffle(h) == (h % 251) * (h % 241) * 7 + h * 3

\* the set hash: the members' scrambled hashes combined commutatively
RECURSIVE SetHash(_)
SetHash(S) ==
    IF S = {} THEN 1927
    ELSE LET p == CHOOSE q \in S : TRUE
         IN (Shuffle(ItemHash(p)) + SetHash(S \ {p})) % 65536

\* FrozensetHash as it would be if the items were hashed in insertion order,
\* hash(tuple(items))
OrderedItemsHash(items) ==
    IF \E i \in 1..Len(items) : items[i][2] = Unhashable
    THEN Raise("TypeError")
    ELSE Return(TupleHashFrom(7, [i \in 1..Len(items) |-> ItemHash(items[i])]))

\* hash(frozenset(items)): order-independent; TypeError on an unhashable value
FrozensetHash(items) ==
    IF \E i \in 1..Len(items) : items[i][2] = Unhashable
    THEN Raise("TypeError")
    ELSE Return(SetHash(Range(items)))

\* dict(base).update(upd): a key of base keeps its place and takes upd's
\* value, the new keys follow in upd's order
Update(base, upd) ==
    LET kept == [i \in 1..Len(base) |->
                    IF base[i][1] \in KeysOf(upd)
                    THEN <<base[i][1], Lookup(upd, base[i][1])>>
                    ELSE base[i]]
        fresh == SelectSeq(upd, LAMBDA p : p[1] \notin KeysOf(base))
    IN kept \o fresh

----------------------------------------------------------------------------
(* The methods of pyvalues.  A method that can change the instance returns *)
(* the instance after the call together with the outcome.                  *)

\* __hash__ as it would be with the keyword hash added whether or not
\* there are keywords
HashAlwaysAddsKwds(v) ==
    IF v.hashed # None
    THEN [self |-> v, out |-> Return(v.hashed)]
    ELSE LET th == TupleHash(v.args)
             fh == FrozensetHash(v.kwds)
         IN IF th.err # "none" THEN [self |-> v, out |-> th]
            ELSE IF fh.err # "none" THEN [self |-> v, out |-> fh]
            ELSE [self |-> [v EXCEPT !.hashed = th.val + fh.val],
                  out |-> Return(th.val + fh.val)]

\* __hash__ as it would be with the keyword hash added outside the cache
\* test, so that a cached result grows at every call
HashRecombines(v) ==
    LET th == IF v.hashed # None THEN Return(v.hashed) ELSE TupleHash(v.args)
        fh == FrozensetHash(v.kwds)
    IN IF th.err # "none" THEN [self |-> v, out |-> th]
       ELSE IF v.kwds # <<>>
       THEN IF fh.err # "none" THEN [self |-> v, out |-> fh]
            ELSE [self |-> [v EXCEPT !.hashed = th.val + fh.val],
                  out |-> Return(th.val + fh.val)]
       ELSE [self |-> [v EXCEPT !.hashed = th.val], out |-> th]

\* __hash__ as it would be hashing frozenset(self.__kwds), the keyword names
\* alone
HashKeysOnly(v) ==
    IF v.hashed # None
    THEN [self |-> v, out |-> Return(v.hashed)]
    ELSE LET th == TupleHash(v.args)
             fh == FrozensetHash([i \in 1..Len(v.kwds) |-> <<v.kwds[i][1], 1>>])
         IN IF th.err # "none" THEN [self |-> v, out |-> th]
            ELSE IF v.kwds # <<>>
            THEN [self |-> [v EXCEPT !.hashed = th.val + fh.val],
                  out |-> Return(th.val + fh.val)]
            ELSE [self |-> [v EXCEPT !.hashed = th.val], out |-> th]

\* pyvalues.__hash__: the cache if it is set; else the tuple hash, plus the
\* hash of the frozen items when there are keywords, stored in the cache.
\* An exception leaves the cache as it was.
__hash__(v) ==
    IF v.hashed # None
    THEN [self |-> v, out |-> Return(v.hashed)]
    ELSE LET th == TupleHash(v.args)
             fh == FrozensetHash(v.kwds)
         IN IF th.err # "none" THEN [self |-> v, out |-> th]
            ELSE IF v.kwds # <<>>
            THEN IF fh.err # "none" THEN [self |-> v, out |-> fh]
                 ELSE [self |-> [v EXCEPT !.hashed = th.val + fh.val],
                       out |-> Return(th.val + fh.val)]
            ELSE [self |-> [v EXCEPT !.hashed = th.val], out |-> th]

\* __eq__ as it would be without the shape tests against plain operands
EqNoShape(v, other) ==
    IF other.kind = "self" THEN TRUE
    ELSE IF other.kind = "values"
    THEN TupleEq(v.args, other.args) /\ DictEq(v.kwds, other.kwds)
    ELSE IF other.kind = "tuple" THEN TupleEq(v.args, other.args)
    ELSE IF other.kind = "dict" THEN DictEq(v.kwds, other.kwds)
    ELSE FALSE

\* __eq__ as it would be comparing, between instances, the keywords of the
\* left operand only
EqOwnKeysOnly(v, other) ==
    IF other.kind = "self" THEN TRUE
    ELSE IF other.kind = "values"
    THEN /\ TupleEq(v.args, other.args)
         /\ \A k \in KeysOf(v.kwds) :
               k \in KeysOf(other.kwds) /\ Lookup(v.kwds, k) = Lookup(other.kwds, k)
    ELSE IF other.kind = "tuple"
    THEN v.kwds = <<>> /\ TupleEq(v.args, other.args)
    ELSE IF other.kind = "dict"
    THEN v.args = <<>> /\ DictEq(v.kwds, other.kwds)
    ELSE FALSE

\* pyvalues.__eq__
__eq__(v, other) ==
    IF other.kind = "self" THEN TRUE
    ELSE IF other.kind = "values"
    THEN TupleEq(v.args, other.args) /\ DictEq(v.kwds, other.kwds)
    ELSE IF other.kind = "tuple"
    THEN v.kwds = <<>> /\ TupleEq(v.args, other.args)
    ELSE IF other.kind = "dict"
    THEN v.args = <<>> /\ DictEq(v.kwds, other.kwds)
    ELSE FALSE

\* pyvalues.__ne__
__ne__(v, other) == ~ __eq__(v, other)

\* pyvalues.__bool__
__bool__(v) == Len(v.args) # 0 \/ v.kwds # <<>>

\* pyvalues.keys: the keys of the keyword dict, in its order
keys(v) == [i \in 1..Len(v.kwds) |-> v.kwds[i][1]]

\* tuple.__getitem__ with an int: negative indexes count from the end
TupleIndex(t, i) ==
    IF 0 <= i /\ i < Len(t) THEN Return(t[i + 1])
    ELSE IF - Len(t) <= i /\ i < 0 THEN Return(t[Len(t) + i + 1])
    ELSE Raise("IndexError")

\* a slice bound, brought into 0..n as the slice protocol does
Clamp(b, n) ==
    IF b < 0 THEN (IF b + n < 0 THEN 0 ELSE b + n)
    ELSE IF b > n THEN n ELSE b

\* tuple.__getitem__ with slice(start, stop)
TupleSlice(t, start, stop) ==
    LET lo == Clamp(start, Len(t))
        hi == Clamp(stop, Len(t))
    IN IF lo < hi THEN SubSeq(t, lo + 1, hi) ELSE <<>>

\* __getitem__ as it would be sending only slices to the tuple part
GetItemSlicesOnly(v, key) ==
    IF key.type = "slice" THEN Return(TupleSlice(v.args, key.i, key.j))
    ELSE IF key.type = "name" /\ key.name \in KeysOf(v.kwds)
    THEN Return(Lookup(v.kwds, key.name))
    ELSE Raise("KeyError")

\* pyvalues.__getitem__: ints and slices go to the tuple part, every other
\* key to the keyword dict
__getitem__(v, key) ==
    IF key.type = "int" THEN TupleIndex(v.args, key.i)
    ELSE IF key.type = "slice" THEN Return(TupleSlice(v.args, key.i, key.j))
    ELSE IF key.name \in KeysOf(v.kwds) THEN Return(Lookup(v.kwds, key.name))
    ELSE Raise("KeyError")

\* subscript keys: an int, slice(i, j), or a name
IntKey(i) == [type |-> "int", i |-> i, j |-> 0, name |-> ""]
SliceKey(i, j) == [type |-> "slice", i |-> i, j |-> j, name |-> ""]
NameKey(n) == [type |-> "name", i |-> 0, j |-> 0, name |-> n]

\* repr of a member
ReprVal(x) == IF x = Unhashable THEN "{'a': 1}" ELSE ToString(x)

RECURSIVE Join(_)
Join(members) ==
    IF members = <<>> THEN ""
    ELSE IF Len(members) = 1 THEN Head(members)
    ELSE Head(members) \o ", " \o Join(Tail(members))

\* pyvalues.__repr__
__repr__(v) ==
    LET pos == [i \in 1..Len(v.args) |-> ReprVal(v.args[i])]
        named == [i \in 1..Len(v.kwds) |->
                    v.kwds[i][1] \o "=" \o ReprVal(v.kwds[i][2])]
    IN "values(" \o Join(pos \o named) \o ")"

\* the parameters of the tests' gather(a, b, c, d=0)
GatherParams == <<"a", "b", "c", "d">>

\* gather(*args, **kwds): [a, b, c, d], or TypeError when the arguments do
\* not fit the signature
Gather(args, kwds) ==
    LET given(i) == i <= Len(args) \/ GatherParams[i] \in KeysOf(kwds)
        value(i) == IF i <= Len(args) THEN args[i]
                    ELSE IF GatherParams[i] \in KeysOf(kwds)
                    THEN Lookup(kwds, GatherParams[i])
                    ELSE 0
    IN IF \/ Len(args) > Len(GatherParams)
          \/ \E k \in KeysOf(kwds) : k \notin Range(GatherParams)
          \/ \E i \in 1..Len(args) : GatherParams[i] \in KeysOf(kwds)
          \/ \E i \in 1..3 : ~ given(i)
       THEN Raise("TypeError")
       ELSE Return([i \in 1..Len(GatherParams) |-> value(i)])

\* function(*args, **kwds) for the targets of the tests: the type itself,
\* which builds a new instance of what it is passed, and gather
Apply(function, args, kwds) ==
    IF function = "values"
    THEN LET made == __new__(args, kwds)
         IN IF made.err # "none" THEN made ELSE Return(AsValues(made.val))
    ELSE Gather(args, kwds)

\* CallArgs as it would be with the extras replacing the positionals
CallArgsReplace(v, args) == IF args # <<>> THEN args ELSE v.args

\* CallArgs as it would be with the extras put first
CallArgsPrepend(v, args) ==
    IF args # <<>>
    THEN (IF Len(v.args) # 0 THEN args \o v.args ELSE args)
    ELSE v.args

\* pyvalues.__call__, the positional arguments passed on
CallArgs(v, args) ==
    IF args # <<>>
    THEN (IF Len(v.args) # 0 THEN v.args \o args ELSE args)
    ELSE v.args

\* CallKwds as it would be passing the extras alone, the instance's
\* keywords left out when there are no extras
CallKwdsExtrasOnly(v, kwds) ==
    IF kwds # <<>>
    THEN (IF v.kwds # <<>> THEN Update(v.kwds, kwds) ELSE kwds)
    ELSE kwds

\* pyvalues.__call__, the keyword arguments passed on
CallKwds(v, kwds) ==
    IF kwds # <<>>
    THEN (IF v.kwds # <<>> THEN Update(v.kwds, kwds) ELSE kwds)
    ELSE v.kwds

\* pyvalues.__call__, the instance after the call: the extras are merged
\* into tmp, a copy of self.__kwds, and the target is handed fresh
\* arguments, so the instance keeps its members
AfterCall(v, args, kwds) == v

\* pyvalues.__call__(self, function, *args, **kwds): an extra keyword named
\* as one of the signature's own parameters is a second value for it,
\* TypeError before the body runs; else the target is applied to the
\* combined arguments
__call__(v, function, args, kwds) ==
    IF KeysOf(kwds) \cap CallParams # {} THEN Raise("TypeError")
    ELSE Apply(function, CallArgs(v, args), CallKwds(v, kwds))

\* whether *other / list(other) can unpack the operand of the last branch
\* of __add__ and __radd__: any iterable will do, a tuple or not
Iterable(other) == other.kind \in {"tuple", "list"}

\* pyvalues.__add__: an instance gives positionals and keywords, a dict
\* keywords, anything else is unpacked as positionals (TypeError when it
\* is not iterable)
__add__(v, other) ==
    IF other.kind = "values" THEN __call__(v, "values", other.args, other.kwds)
    ELSE IF other.kind = "dict" THEN __call__(v, "values", <<>>, other.kwds)
    ELSE IF Iterable(other) THEN __call__(v, "values", other.args, <<>>)
    ELSE Raise("TypeError")

\* pyvalues.__radd__: anything that is no instance and no dict is made a
\* list and extended with the positionals (TypeError when it is not
\* iterable)
__radd__(v, left) ==
    IF left.kind = "values" THEN __call__(left, "values", v.args, v.kwds)
    ELSE IF left.kind = "dict"
    THEN Apply("values", v.args, Update(left.kwds, v.kwds))
    ELSE IF Iterable(left) THEN Apply("values", left.args \o v.args, v.kwds)
    ELSE Raise("TypeError")

----------------------------------------------------------------------------
(* The interpreter around the type: operator dispatch, hash(), dict.       *)

\* the other operand as the method sees it
Resolve(v, other) == IF other.kind = "self" THEN AsValues(v) ELSE other

\* left == right with the instance v on the side `side`.  With v on the
\* right, an instance on the left answers itself; a tuple gives way to its
\* subclass's reflected method, and dict and object return NotImplemented,
\* so v.__eq__ answers.
PyEq(v, other, side) ==
    IF side = "right" /\ other.kind = "values"
    THEN __eq__(other, AsValues(v))
    ELSE __eq__(v, other)

\* left != right with the instance v on the side `side`
PyNe(v, other, side) ==
    IF side = "right" /\ other.kind = "values"
    THEN __ne__(other, AsValues(v))
    ELSE __ne__(v, other)

\* hash() of what __hash__ returned: an int that fits the hash type is
\* taken as it is, a larger one is reduced
HashResult(out) ==
    IF out.err # "none" THEN out
    ELSE IF out.val < 65536 THEN out
    ELSE Return(out.val % 65521)

\* hash(key) for a dict key, the instance itself or a plain tuple: the
\* instance after the call and the outcome
PyHash(v, key) ==
    IF key.kind = "self"
    THEN [self |-> __hash__(v).self, out |-> HashResult(__hash__(v).out)]
    ELSE [self |-> v, out |-> TupleHash(key.args)]

\* stored key == looked-up key, as the dict compares them: identity first,
\* then ==, in which the instance's __eq__ answers for a tuple
KeyEq(v, stored, key) ==
    IF stored.kind = "self" THEN PyEq(v, key, "left")
    ELSE IF key.kind = "self" THEN PyEq(v, stored, "right")
    ELSE TupleEq(stored.args, key.args)

\* the index of the entry of d that a key with hash h finds, 0 for none
Find(v, d, key, h) ==
    IF \E i \in 1..Len(d) : d[i].hash = h /\ KeyEq(v, d[i].key, key)
    THEN CHOOSE i \in 1..Len(d) : d[i].hash = h /\ KeyEq(v, d[i].key, key)
    ELSE 0

----------------------------------------------------------------------------
(* The inputs the caller draws.                                            *)

Sides == {"left", "right"}

SubscriptKeys ==
    {IntKey(i) : i \in (0 - MaxLen - 1)..(MaxLen + 1)}
        \cup {SliceKey(i, j) : i \in {-1, 0, 1}, j \in {0, 1, MaxLen}}
        \cup {NameKey(n) : n \in Keys \cup {"c"}}

Targets == {"values", "gather"}

ExtraArgs == SeqsUpTo(HashableVals, MaxExtra)

ExtraKwds == KwdsOver(HashableVals)

\* dict keys: the instance, the plain tuple of its positionals, and (1,)
DictKeys(v) == {Same, AsTuple(v.args), AsTuple(<<1>>)}

DictVals == {"wut", "tacos"}

Idle == [op |-> "none"]

----------------------------------------------------------------------------
(* The state machine.                                                      *)

Init ==
    /\ self \in Instances
    /\ last = Idle
    /\ data = <<>>

\* hash(self); `memo` tells whether the cache was already set
Hash ==
    /\ last.op = "none"
    /\ self' = __hash__(self).self
    /\ last' = [op |-> "hash", memo |-> self.hashed # None,
                out |-> HashResult(__hash__(self).out)]
    /\ UNCHANGED data

\* self == other, or other == self
Eq ==
    /\ last.op = "none"
    /\ \E other \in Others, side \in Sides :
          last' = [op |-> "eq", other |-> other, side |-> side,
                   out |-> PyEq(self, other, side)]
    /\ UNCHANGED <<self, data>>

\* self != other, or other != self
Ne ==
    /\ last.op = "none"
    /\ \E other \in Others, side \in Sides :
          last' = [op |-> "ne", other |-> other, side |-> side,
                   out |-> PyNe(self, other, side)]
    /\ UNCHANGED <<self, data>>

\* bool(self)
Bool ==
    /\ last.op = "none"
    /\ last' = [op |-> "bool", out |-> __bool__(self)]
    /\ UNCHANGED <<self, data>>

\* self.keys()
KeysView ==
    /\ last.op = "none"
    /\ last' = [op |-> "keys", out |-> keys(self)]
    /\ UNCHANGED <<self, data>>

\* repr(self)
Repr ==
    /\ last.op = "none"
    /\ last' = [op |-> "repr", out |-> __repr__(self)]
    /\ UNCHANGED <<self, data>>

\* self[key]
GetItem ==
    /\ last.op = "none"
    /\ \E key \in SubscriptKeys :
          last' = [op |-> "getitem", key |-> key,
                   out |-> __getitem__(self, key)]
    /\ UNCHANGED <<self, data>>

\* self(function, *args, **kwds)
Call ==
    /\ last.op = "none"
    /\ \E function \in Targets, args \in ExtraArgs, kwds \in ExtraKwds :
          /\ last' = [op |-> "call", function |-> function, args |-> args,
                      kwds |-> kwds,
                      out |-> __call__(self, function, args, kwds)]
          /\ self' = AfterCall(self, args, kwds)
    /\ UNCHANGED data

\* self + other
Add ==
    /\ last.op = "none"
    /\ \E other \in Others :
          last' = [op |-> "add", other |-> other,
                   out |-> __add__(self, Resolve(self, other))]
    /\ UNCHANGED <<self, data>>

\* left + self, answered by self.__radd__
RAdd ==
    /\ last.op = "none"
    /\ \E left \in Others :
          last' = [op |-> "radd", other |-> left,
                   out |-> __radd__(self, Resolve(self, left))]
    /\ UNCHANGED <<self, data>>

\* data[key] = val: hash the key, then replace the value of the entry the
\* key finds or add an entry
SetItem ==
    /\ last.op = "none"
    /\ \E key \in DictKeys(self), val \in DictVals :
          LET h == PyHash(self, key)
              at == Find(h.self, data, key, h.out.val)
          IN /\ h.out.err = "none" /\ at = 0 => Len(data) < MaxData
             /\ self' = h.self
             /\ data' = IF h.out.err # "none" THEN data
                        ELSE IF at # 0 THEN [data EXCEPT ![at].val = val]
                        ELSE Append(data, [key |-> key, hash |-> h.out.val,
                                           val |-> val])
             /\ last' = [op |-> "setitem", key |-> key,
                         out |-> IF h.out.err # "none" THEN h.out
                                 ELSE Return("")]

\* data[key]: hash the key, then the value of the entry the key finds
DictGet ==
    /\ last.op = "none"
    /\ \E key \in DictKeys(self) :
          LET h == PyHash(self, key)
              at == Find(h.self, data, key, h.out.val)
          IN /\ self' = h.self
             /\ last' = [op |-> "dictget", key |-> key,
                         out |-> IF h.out.err # "none" THEN h.out
                                 ELSE IF at # 0 THEN Return(data[at].val)
                                 ELSE Raise("KeyError")]
    /\ UNCHANGED data

\* the caller is done with the outcome
Discard ==
    /\ last.op # "none"
    /\ last' = Idle
    /\ UNCHANGED <<self, data>>

Next ==
    \/ Hash
    \/ Eq
    \/ Ne
    \/ Bool
    \/ KeysView
    \/ Repr
    \/ GetItem
    \/ Call
    \/ Add
    \/ RAdd
    \/ Discard

\* a caller that applies the type's own operations
Spec == Init /\ [][Next]_vars

DataNext ==
    \/ Hash
    \/ SetItem
    \/ DictGet
    \/ Discard

\* a caller that hashes the instance and uses it, and plain tuples, as keys
\* of a dict
SpecData == Init /\ [][DataNext]_vars

----------------------------------------------------------------------------
(* Properties.                                                             *)

\* C1: equality against a non-instance follows the shape rules.  Against a
\* plain tuple t, a == t exactly when a has no keywords and its positionals
\* are t, element for element; against a plain dict m, a == m exactly when
\* a has no positionals and its keywords are the entries of m.  So an
\* instance with positionals and keywords equals no plain tuple and no
\* plain dict, and the empty instance equals both () and {}.
C1_ShapeEquality ==
    (last.op = "eq" /\ last.side = "left") =>
        /\ (last.other.kind = "tuple") =>
              (last.out = (self.kwds = <<>> /\ self.args = last.other.args))
        /\ (last.other.kind = "dict") =>
              (last.out = (/\ self.args = <<>>
                           /\ Range(self.kwds) = Range(last.other.kwds)))
        /\ (/\ self.args # <<>>
            /\ self.kwds # <<>>
            /\ last.other.kind \in {"tuple", "dict"}) => (last.out = FALSE)
        /\ (/\ self.args = <<>>
            /\ self.kwds = <<>>
            /\ last.other \in {AsTuple(<<>>), AsDict(<<>>)}) => (last.out = TRUE)

\* a keyword-only instance was found equal to a dict holding its two entries
\* in the other order
C1_Witness ==
    /\ last.op = "eq"
    /\ last.side = "left"
    /\ last.other.kind = "dict"
    /\ last.out = TRUE
    /\ Len(self.kwds) = 2
    /\ self.kwds # last.other.kwds

\* C2: equality is symmetric.  For an instance a and b an instance, a plain
\* tuple or a plain dict, a == b and b == a agree, and a != b and b != a
\* are both the negation of a == b.
C2_Symmetry ==
    /\ (last.op = "eq") =>
          (last.out = PyEq(self, last.other,
                           IF last.side = "left" THEN "right" ELSE "left"))
    /\ (last.op = "ne") =>
          /\ last.out = ~ PyEq(self, last.other, "left")
          /\ last.out = ~ PyEq(self, last.other, "right")

\* another instance, its keywords in the other order, was found equal to
\* the instance from the left
C2_Witness ==
    /\ last.op = "eq"
    /\ last.side = "right"
    /\ last.other.kind = "values"
    /\ last.out = TRUE
    /\ self.args # <<>>
    /\ Len(self.kwds) = 2
    /\ self.kwds # last.other.kwds

\* C3: hash agrees with equality between instances.  An instance b with the
\* positionals of a and the keyword entries of a, in any insertion order,
\* equals a and hashes as a does; and whenever a == b and both hash, the
\* hashes are the same.
C3_HashAgreesWithEquality ==
    (last.op = "hash" /\ last.out.err = "none") =>
        \A b \in Instances :
            LET hb == HashResult(__hash__(b).out)
            IN /\ (b.args = self.args /\ Range(b.kwds) = Range(self.kwds)) =>
                     /\ PyEq(self, AsValues(b), "left")
                     /\ PyEq(self, AsValues(b), "right")
                     /\ hb = last.out
               /\ (PyEq(self, AsValues(b), "left") /\ hb.err = "none") =>
                     (hb.val = last.out.val)

\* an instance with positionals and two keywords, which another insertion
\* order can match, was hashed
C3_Witness ==
    /\ last.op = "hash"
    /\ last.out.err = "none"
    /\ self.args # <<>>
    /\ Len(self.kwds) = 2

\* C4: an instance a without keywords equals tuple(a), hashes as tuple(a)
\* does, and the two are one key of a dict: an entry stored under either
\* carries the tuple's hash and is what a lookup by either returns.
C4_TupleInterchangeable ==
    (self.kwds = <<>>) =>
        LET t == AsTuple(self.args)
        IN /\ PyEq(self, t, "left")
           /\ PyEq(self, t, "right")
           /\ (last.op = "hash") => (last.out = TupleHash(self.args))
           /\ \A i \in 1..Len(data) :
                 (data[i].key \in {Same, t}) =>
                     /\ data[i].hash = TupleHash(self.args).val
                     /\ (last.op = "dictget" /\ last.key \in {Same, t}) =>
                           (last.out = Return(data[i].val))

\* an entry stored under the instance was found by a lookup with the plain
\* tuple of its positionals
C4_Witness ==
    /\ self.kwds = <<>>
    /\ self.args # <<>>
    /\ Len(data) = 1
    /\ data[1].key = Same
    /\ last.op = "dictget"
    /\ last.key = AsTuple(self.args)
    /\ last.out = Return(data[1].val)

\* C5, as claimed: a call with extra positionals on an instance that has
\* positionals is always rejected with TypeError.
C5_ExtrasRejected ==
    (last.op = "call" /\ last.args # <<>> /\ self.args # <<>>) =>
        (last.out.err = "TypeError")

\* C5, amended: a call with extra positionals on an instance that has
\* positionals hands the target the instance's positionals followed by the
\* extras, and fails with TypeError only when the target rejects these
\* arguments; on an instance without positionals the extras are the
\* positional arguments.  The one other failure is an extra keyword under
\* the name of a parameter of the call itself (C7), on which the target is
\* not called.
C5_ExtrasAppended ==
    (last.op = "call" /\ last.args # <<>>) =>
        LET passed == IF self.args # <<>> THEN self.args \o last.args
                      ELSE last.args
            named == KeysOf(self.kwds) \cup KeysOf(last.kwds)
        IN IF KeysOf(last.kwds) \cap CallParams # {}
           THEN last.out.err = "TypeError"
           ELSE
           /\ (last.function = "values") =>
                 IF named \cap NewParams # {}
                 THEN last.out.err = "TypeError"
                 ELSE last.out.err = "none" /\ last.out.val.args = passed
           /\ (last.function = "gather") =>
                 /\ (last.out.err = "none") =>
                       (SubSeq(last.out.val, 1, Len(passed)) = passed)
                 /\ (last.out.err # "none") =>
                       \/ Len(passed) > Len(GatherParams)
                       \/ \E i \in 1..3 :
                             i > Len(passed) /\ GatherParams[i] \notin named
                       \/ \E k \in named :
                             \/ k \notin Range(GatherParams)
                             \/ \E i \in 1..Len(passed) : GatherParams[i] = k

\* the type itself, called through an instance with positionals and with
\* extra positionals, returned an instance of both
C5_Witness ==
    /\ last.op = "call"
    /\ last.function = "values"
    /\ self.args # <<>>
    /\ last.args # <<>>
    /\ last.out.err = "none"
    /\ Len(last.out.val.args) = Len(self.args) + Len(last.args)

\* C6: a call passes the target the instance's positionals followed by the
\* extra positionals, in order: the positionals alone without extras, the
\* extras alone on an instance without positionals.  What the target
\* returns is returned, and the target's TypeError is raised.  Stated of
\* the calls that reach the target, those whose extra keywords take no name
\* of a parameter of the call itself (C7 is about the others).
C6_PositionalsThenExtras ==
    (last.op = "call" /\ KeysOf(last.kwds) \cap CallParams = {}) =>
        LET passed == self.args \o last.args
        IN /\ (last.function = "values") =>
                 /\ (last.out.err = "none") => (last.out.val.args = passed)
                 /\ (last.out.err # "none") =>
                       (KeysOf(last.kwds) \cap NewParams # {})
           /\ (last.function = "gather") =>
                 (last.out = Gather(passed, CallKwds(self, last.kwds)))

\* gather, called through an instance with positionals and with extra
\* positionals, returned its four parameters
C6_Witness ==
    /\ last.op = "call"
    /\ last.function = "gather"
    /\ self.args # <<>>
    /\ last.args # <<>>
    /\ last.out.err = "none"
    /\ SubSeq(last.out.val, 1, 3) = SubSeq(self.args \o last.args, 1, 3)

\* C7: for every mapping of extra keywords, the keyword arguments a call
\* passes are the instance's keywords overridden by the extra keywords:
\* every name of either is passed, a name of both carries the extra's
\* value, and without extras the instance's keywords are passed as they
\* are; a name the target does not accept fails with TypeError.  The type
\* as a target accepts every name but that of its constructor's own
\* parameter, gather accepts the names of its parameters.
C7_KeywordsMerged ==
    (last.op = "call") =>
        LET named == KeysOf(self.kwds) \cup KeysOf(last.kwds)
            merged(k) == IF k \in KeysOf(last.kwds) THEN Lookup(last.kwds, k)
                         ELSE Lookup(self.kwds, k)
        IN /\ (last.function = "values") =>
                 IF named \cap NewParams # {}
                 THEN last.out.err = "TypeError"
                 ELSE /\ last.out.err = "none"
                      /\ KeysOf(last.out.val.kwds) = named
                      /\ \A k \in named :
                            Lookup(last.out.val.kwds, k) = merged(k)
                      /\ (last.kwds = <<>>) => (last.out.val.kwds = self.kwds)
           /\ (last.function = "gather") =>
                 /\ (\E k \in named : k \notin Range(GatherParams)) =>
                       (last.out.err = "TypeError")
                 /\ (last.out.err = "none" /\ "d" \in named) =>
                       (last.out.val[4] = merged("d"))

\* C8, as claimed: an int key i returns positionals[i] when
\* 0 <= i < len(positionals) and fails with IndexError for every other int.
C8_OutsideRangeFails ==
    (last.op = "getitem" /\ last.key.type = "int") =>
        IF 0 <= last.key.i /\ last.key.i < Len(self.args)
        THEN last.out = Return(self.args[last.key.i + 1])
        ELSE last.out.err = "IndexError"

\* C8, amended: an int key i returns positionals[i] when
\* 0 <= i < len(positionals), positionals[len(positionals) + i] when
\* -len(positionals) <= i < 0, and fails with IndexError for every other
\* int, whatever the keywords; a name returns the keyword's value and fails
\* with KeyError when the name is absent, whatever the positionals.
C8_SubscriptResolution ==
    (last.op = "getitem") =>
        LET n == Len(self.args)
            i == last.key.i
        IN /\ (last.key.type = "int") =>
                 (last.out = IF 0 <= i /\ i < n THEN Return(self.args[i + 1])
                             ELSE IF 0 - n <= i /\ i < 0
                             THEN Return(self.args[n + i + 1])
                             ELSE Raise("IndexError"))
           /\ (last.key.type = "name") =>
                 (last.out = IF \E p \in Range(self.kwds) : p[1] = last.key.name
                             THEN Return((CHOOSE p \in Range(self.kwds) :
                                             p[1] = last.key.name)[2])
                             ELSE Raise("KeyError"))

\* a negative int key returned a positional of an instance that has keywords
C8_Witness ==
    /\ last.op = "getitem"
    /\ last.key.type = "int"
    /\ last.key.i < 0
    /\ last.out.err = "none"
    /\ self.kwds # <<>>

\* C9: no operation changes the positionals or the keywords of the
\* instance.  The hash cache is the only state that changes: once set it
\* keeps its value, a successful hash call returns what the cache then
\* holds, and so every later hash call returns what the first returned.
C9_OnlyTheCacheChanges ==
    [][/\ self'.args = self.args
       /\ self'.kwds = self.kwds
       /\ (self.hashed # None) => (self'.hashed = self.hashed)
       /\ (last'.op = "hash" /\ last'.out.err = "none") =>
             /\ self'.hashed # None
             /\ last'.out = HashResult(Return(self'.hashed))
       /\ (last'.op # "hash" \/ last'.out.err # "none") =>
             (self'.hashed = self.hashed)]_vars

\* an instance with positionals and keywords was hashed again, its cache
\* already set
C9_Witness ==
    /\ last.op = "hash"
    /\ last.memo
    /\ self.hashed # None
    /\ self.args # <<>>
    /\ self.kwds # <<>>

\* C10: hashing an instance with an unhashable positional or an unhashable
\* keyword value fails with TypeError, whether the attempt is hash() or the
\* use of the instance as a dict key for a store or a lookup; the failed
\* attempt leaves the cache unset and the instance and the dict as they
\* were, so that every later attempt fails again.
C10_UnhashableFails ==
    [][(/\ \/ \E i \in 1..Len(self.args) : self.args[i] = Unhashable
           \/ \E i \in 1..Len(self.kwds) : self.kwds[i][2] = Unhashable
        /\ \/ last'.op = "hash"
           \/ last'.op \in {"setitem", "dictget"} /\ last'.key = Same)
       => (/\ last'.out.err = "TypeError"
           /\ self.hashed = None
           /\ self' = self
           /\ data' = data)]_vars

\* a store under an instance whose only unhashable member is a keyword
\* value failed with TypeError
C10_Witness ==
    /\ last.op = "setitem"
    /\ last.key = Same
    /\ last.out.err = "TypeError"
    /\ self.args # <<>>
    /\ \A i \in 1..Len(self.args) : self.args[i] # Unhashable
    /\ \E i \in 1..Len(self.kwds) : self.kwds[i][2] = Unhashable
    /\ self.hashed = None
    /\ data = <<>>

\* C11: the copy round-trip.  Calling an instance a, whatever its shape,
\* with its own type as the target and no extra arguments returns a new
\* instance, not a itself, that equals a from the left and from the right
\* and, when a hashes, hashes to the value a hashes to.
C11_CopyRoundTrip ==
    (/\ last.op = "call"
     /\ last.function = "values"
     /\ last.args = <<>>
     /\ last.kwds = <<>>) =>
        /\ last.out.err = "none"
        /\ last.out.val.kind = "values"
        /\ last.out.val # Same
        /\ PyEq(self, last.out.val, "left")
        /\ PyEq(self, last.out.val, "right")
        /\ (HashResult(__hash__(self).out).err = "none") =>
              (HashResult(__hash__(__new__(last.out.val.args,
                                           last.out.val.kwds).val).out)
                  = HashResult(__hash__(self).out))

\* an instance with positionals and two keywords, its hash already cached,
\* was copied
C11_Witness ==
    /\ last.op = "call"
    /\ last.function = "values"
    /\ last.args = <<>>
    /\ last.kwds = <<>>
    /\ last.out.err = "none"
    /\ self.args # <<>>
    /\ Len(self.kwds) = 2
    /\ self.hashed # None

====
